---- MODULE Spec2Model ----
(***************************************************************************)
(* Request/response pipeline of the "find nearby bars" front ends.         *)
(*                                                                         *)
(* Three front-end variants live in the repository:                        *)
(*   "relay"   src/index.tsx lines 1-148: webhook whose body may be a      *)
(*             JSON string holding JSON, venues under the key bars;        *)
(*   "direct"  src/index.tsx lines 150-323: webhook answering with the     *)
(*             venue array itself;                                         *)
(*   "schema"  src/unnamed/part_001: generative backend with an output     *)
(*             schema, answer text possibly wrapped in a code fence.       *)
(*                                                                         *)
(* A JavaScript string is a sequence of one-character strings, so that     *)
(* includes, startsWith, substring, trim, JSON.parse and the template      *)
(* literals are computed character by character.  A JavaScript value is a  *)
(* tagged record; a number n/10 is held as the integer n (non-negative,    *)
(* at most one fractional digit); an object is its list of <<key, value>>  *)
(* pairs in insertion order.                                               *)
(***************************************************************************)
EXTENDS Integers, Sequences, FiniteSets

VARIABLES
    variant,      \* which front end is loaded
    geoSupported, \* whether navigator.geolocation exists
    runs,         \* per handler invocation: where it is suspended
    loader,       \* loader.style.display
    results,      \* content of resultsContainer
    requests,     \* per handler invocation: backend requests it has issued
    last          \* record of the handler invocation that completed last

vars == <<variant, geoSupported, runs, loader, results, requests, last>>

-----------------------------------------------------------------------------
(* Bounds *)

\* Handler invocations that may be suspended at the same time.
MaxRuns == 2

-----------------------------------------------------------------------------
(* JavaScript strings *)

RECURSIVE Join(_, _)
\* Array.prototype.join on strings already converted.
Join(parts, sep) ==
    IF Len(parts) = 0 THEN <<>>
    ELSE IF Len(parts) = 1 THEN parts[1]
    ELSE parts[1] \o sep \o Join(Tail(parts), sep)

\* String.prototype.startsWith
StartsWith(s, prefix) ==
    /\ Len(prefix) <= Len(s)
    /\ SubSeq(s, 1, Len(prefix)) = prefix

\* String.prototype.includes
Includes(s, sub) ==
    \E i \in 1..(Len(s) + 1) :
        /\ i + Len(sub) - 1 <= Len(s)
        /\ SubSeq(s, i, i + Len(sub) - 1) = sub

Digit(d) == <<"0", "1", "2", "3", "4", "5", "6", "7", "8", "9">>[d + 1]

Digits == {"0", "1", "2", "3", "4", "5", "6", "7", "8", "9"}

DigitVal(c) == CHOOSE d \in 0..9 : Digit(d) = c

RECURSIVE IntToString(_)
\* Decimal digits of a non-negative integer.
IntToString(n) ==
    IF n < 10 THEN <<Digit(n)>>
    ELSE IntToString(n \div 10) \o <<Digit(n % 10)>>

\* String(x) of the number x = n/10.
NumberToString(n) ==
    IF n % 10 = 0 THEN IntToString(n \div 10)
    ELSE IntToString(n \div 10) \o <<".">> \o <<Digit(n % 10)>>

\* x.toFixed(1) of the number x = n/10.
ToFixed1(n) == IntToString(n \div 10) \o <<".">> \o <<Digit(n % 10)>>

-----------------------------------------------------------------------------
(* JavaScript values *)

Undefined == [t |-> "undefined"]
Null == [t |-> "null"]
Bool(b) == [t |-> "boolean", b |-> b]
Num(n) == [t |-> "number", n |-> n]
NaN == [t |-> "NaN"]
Str(s) == [t |-> "string", s |-> s]
Arr(a) == [t |-> "array", a |-> a]
Obj(o) == [t |-> "object", o |-> o]

\* typeof value === 'string'
IsString(v) == v.t = "string"

\* Array.isArray(value)
IsArray(v) == v.t = "array"

\* typeof value === 'object': null, arrays and plain objects.
TypeofObject(v) == v.t \in {"null", "array", "object"}

\* ToBoolean: the falsy values are undefined, null, false, 0, NaN and ''.
Truthy(v) ==
    CASE v.t = "undefined" -> FALSE
      [] v.t = "null" -> FALSE
      [] v.t = "boolean" -> v.b
      [] v.t = "number" -> v.n # 0
      [] v.t = "NaN" -> FALSE
      [] v.t = "string" -> Len(v.s) > 0
      [] OTHER -> TRUE

RECURSIVE Lookup(_, _)
\* The value of the last pair with this key, or undefined.
Lookup(pairs, key) ==
    IF Len(pairs) = 0 THEN Undefined
    ELSE IF pairs[Len(pairs)][1] = key THEN pairs[Len(pairs)][2]
    ELSE Lookup(SubSeq(pairs, 1, Len(pairs) - 1), key)

\* value.key for a value that is neither null nor undefined: own data
\* properties of objects; primitives and arrays have none of the keys used.
Prop(v, key) == IF v.t = "object" THEN Lookup(v.o, key) ELSE Undefined

\* Reading a property of null or undefined throws a TypeError.
Nullish(v) == v.t \in {"null", "undefined"}

-----------------------------------------------------------------------------
(* Conversions *)

S_undefined == <<"u", "n", "d", "e", "f", "i", "n", "e", "d">>
S_null == <<"n", "u", "l", "l">>
S_true == <<"t", "r", "u", "e">>
S_false == <<"f", "a", "l", "s", "e">>
S_NaN == <<"N", "a", "N">>
S_objectObject ==
    <<"[", "o", "b", "j", "e", "c", "t", " ", "O", "b", "j", "e", "c", "t", "]">>

WhiteSpace == {" ", "\n", "\t", "\r"}

RECURSIVE TrimStart(_)
TrimStart(s) ==
    IF Len(s) > 0 /\ s[1] \in WhiteSpace THEN TrimStart(Tail(s)) ELSE s

RECURSIVE TrimEnd(_)
TrimEnd(s) ==
    IF Len(s) > 0 /\ s[Len(s)] \in WhiteSpace
    THEN TrimEnd(SubSeq(s, 1, Len(s) - 1))
    ELSE s

\* String.prototype.trim
Trim(s) == TrimEnd(TrimStart(s))

\* String.prototype.substring(from, to) with 0-based indices: arguments
\* below 0 become 0, above the length become the length, and the two are
\* swapped when from > to.
Substring(s, from, to) ==
    LET clamp(k) == IF k < 0 THEN 0 ELSE IF k > Len(s) THEN Len(s) ELSE k
        a == clamp(from)
        b == clamp(to)
        lo == IF a <= b THEN a ELSE b
        hi == IF a <= b THEN b ELSE a
    IN  SubSeq(s, lo + 1, hi)

RECURSIVE ToString(_)
\* String(value), which is also what a template literal applies.
ToString(v) ==
    CASE v.t = "undefined" -> S_undefined
      [] v.t = "null" -> S_null
      [] v.t = "boolean" -> IF v.b THEN S_true ELSE S_false
      [] v.t = "number" -> NumberToString(v.n)
      [] v.t = "NaN" -> S_NaN
      [] v.t = "string" -> v.s
      [] v.t = "array" ->
            Join([i \in 1..Len(v.a) |->
                    IF Nullish(v.a[i]) THEN <<>> ELSE ToString(v.a[i])],
                 <<",">>)
      [] v.t = "object" -> S_objectObject

RECURSIVE DigitsValue(_, _)
\* The integer written by a sequence of digits, after the digits in acc.
DigitsValue(s, acc) ==
    IF Len(s) = 0 THEN acc
    ELSE DigitsValue(Tail(s), 10 * acc + DigitVal(s[1]))

AllDigits(s) == Len(s) > 0 /\ \A i \in 1..Len(s) : s[i] \in Digits

\* Number(string): the empty or blank string is 0; digits with at most one
\* fractional digit are that number; anything else used here is NaN.
StringToNumber(s) ==
    LET u == Trim(s)
        n == Len(u)
    IN  IF n = 0 THEN Num(0)
        ELSE IF AllDigits(u) THEN Num(10 * DigitsValue(u, 0))
        ELSE IF /\ n >= 3
                /\ u[n - 1] = "."
                /\ u[n] \in Digits
                /\ AllDigits(SubSeq(u, 1, n - 2))
        THEN Num(10 * DigitsValue(SubSeq(u, 1, n - 2), 0) + DigitVal(u[n]))
        ELSE NaN

\* Number(value)
ToNumber(v) ==
    CASE v.t = "undefined" -> NaN
      [] v.t = "null" -> Num(0)
      [] v.t = "boolean" -> IF v.b THEN Num(10) ELSE Num(0)
      [] v.t = "number" -> v
      [] v.t = "NaN" -> NaN
      [] v.t = "string" -> StringToNumber(v.s)
      [] v.t = "array" -> StringToNumber(ToString(v))
      [] v.t = "object" -> NaN

\* Number.prototype.toFixed(1) on a number value.
NumberToFixed1(v) == IF v.t = "NaN" THEN S_NaN ELSE ToFixed1(v.n)

-----------------------------------------------------------------------------
(* JSON text *)

Failed == [ok |-> FALSE]
Parsed(v, next) == [ok |-> TRUE, v |-> v, i |-> next]

RECURSIVE SkipWs(_, _)
SkipWs(s, i) ==
    IF i <= Len(s) /\ s[i] \in WhiteSpace THEN SkipWs(s, i + 1) ELSE i

\* Whether s holds word at position i.
At(s, i, word) ==
    /\ i + Len(word) - 1 <= Len(s)
    /\ SubSeq(s, i, i + Len(word) - 1) = word

RECURSIVE DigitsEnd(_, _)
\* The first position at or after i that holds no digit.
DigitsEnd(s, i) ==
    IF i <= Len(s) /\ s[i] \in Digits THEN DigitsEnd(s, i + 1) ELSE i

\* A number: 0 or a digit string without leading zero, then at most one
\* fractional digit.
ParseNumber(s, i) ==
    LET e == IF s[i] = "0" THEN i + 1 ELSE DigitsEnd(s, i)
        whole == DigitsValue(SubSeq(s, i, e - 1), 0)
    IN  IF e <= Len(s) /\ s[e] = "."
        THEN IF e + 1 <= Len(s) /\ s[e + 1] \in Digits
             THEN Parsed(Num(10 * whole + DigitVal(s[e + 1])), e + 2)
             ELSE Failed
        ELSE Parsed(Num(10 * whole), e)

(***************************************************************************)
(* JSON.parse as a pushdown machine over the text.  mode says what is     *)
(* expected at position i: a value, the rest of a string, an object key,   *)
(* the colon after a key, or what follows a completed value v.  stack      *)
(* holds the arrays and objects that are open, innermost last.             *)
(***************************************************************************)
Frame(kind, items, key) == [k |-> kind, items |-> items, key |-> key]

Machine(st, mode, i, stack, acc, isKey, fresh, v) ==
    [st |-> st, mode |-> mode, i |-> i, stack |-> stack, acc |-> acc,
     isKey |-> isKey, fresh |-> fresh, v |-> v]

Start == Machine("run", "value", 1, <<>>, <<>>, FALSE, FALSE, Null)

Fail(m) == [m EXCEPT !.st = "fail"]

\* The machine after the value v that ends before position next.
After(m, v, next) == [m EXCEPT !.mode = "after", !.v = v, !.i = next]

Pop(stack) == SubSeq(stack, 1, Len(stack) - 1)

CharAt(s, j) == IF j <= Len(s) THEN s[j] ELSE "end of text"

StepValue(s, m) ==
    LET j == SkipWs(s, m.i)
        c == CharAt(s, j)
    IN  CASE j > Len(s) -> Fail(m)
          [] c = "]" /\ m.fresh /\ m.stack[Len(m.stack)].k = "array" ->
                [After(m, Arr(<<>>), j + 1) EXCEPT !.stack = Pop(m.stack),
                                                   !.fresh = FALSE]
          [] c = "\"" ->
                [m EXCEPT !.mode = "string", !.acc = <<>>, !.isKey = FALSE,
                          !.i = j + 1, !.fresh = FALSE]
          [] c = "[" ->
                [m EXCEPT !.stack = Append(m.stack, Frame("array", <<>>, <<>>)),
                          !.fresh = TRUE, !.i = j + 1]
          [] c = "{" ->
                [m EXCEPT !.stack = Append(m.stack, Frame("object", <<>>, <<>>)),
                          !.mode = "key", !.fresh = TRUE, !.i = j + 1]
          [] c \in Digits ->
                LET r == ParseNumber(s, j)
                IN  IF r.ok THEN [After(m, r.v, r.i) EXCEPT !.fresh = FALSE]
                    ELSE Fail(m)
          [] At(s, j, S_null) ->
                [After(m, Null, j + 4) EXCEPT !.fresh = FALSE]
          [] At(s, j, S_true) ->
                [After(m, Bool(TRUE), j + 4) EXCEPT !.fresh = FALSE]
          [] At(s, j, S_false) ->
                [After(m, Bool(FALSE), j + 5) EXCEPT !.fresh = FALSE]
          [] OTHER -> Fail(m)

\* Inside a string: a backslash escapes a quote, a backslash, a slash or
\* stands before n for a newline; a raw control character is an error.
StepString(s, m) ==
    LET c == CharAt(s, m.i)
        d == CharAt(s, m.i + 1)
    IN  CASE m.i > Len(s) -> Fail(m)
          [] c = "\"" /\ m.isKey ->
                [m EXCEPT !.stack[Len(m.stack)].key = m.acc,
                          !.mode = "colon", !.i = m.i + 1]
          [] c = "\"" /\ ~m.isKey -> After(m, Str(m.acc), m.i + 1)
          [] c = "\\" /\ d \in {"\"", "\\", "/"} ->
                [m EXCEPT !.acc = Append(m.acc, d), !.i = m.i + 2]
          [] c = "\\" /\ d = "n" ->
                [m EXCEPT !.acc = Append(m.acc, "\n"), !.i = m.i + 2]
          [] c = "\\" -> Fail(m)
          [] c \in {"\n", "\t", "\r"} -> Fail(m)
          [] OTHER -> [m EXCEPT !.acc = Append(m.acc, c), !.i = m.i + 1]

StepKey(s, m) ==
    LET j == SkipWs(s, m.i)
        c == CharAt(s, j)
    IN  CASE c = "}" /\ m.fresh ->
                [After(m, Obj(<<>>), j + 1) EXCEPT !.stack = Pop(m.stack),
                                                   !.fresh = FALSE]
          [] c = "\"" ->
                [m EXCEPT !.mode = "string", !.acc = <<>>, !.isKey = TRUE,
                          !.i = j + 1, !.fresh = FALSE]
          [] OTHER -> Fail(m)

StepColon(s, m) ==
    LET j == SkipWs(s, m.i)
    IN  IF CharAt(s, j) = ":" THEN [m EXCEPT !.mode = "value", !.i = j + 1]
        ELSE Fail(m)

\* After a value: the end of the text, or the value joins the innermost
\* open array or object, which a comma continues and a bracket closes.
StepAfter(s, m) ==
    LET j == SkipWs(s, m.i)
        c == CharAt(s, j)
        n == Len(m.stack)
        top == m.stack[n]
        closer == IF top.k = "array" THEN "]" ELSE "}"
        items == IF top.k = "array" THEN Append(top.items, m.v)
                 ELSE Append(top.items, <<top.key, m.v>>)
    IN  CASE n = 0 /\ j = Len(s) + 1 -> [m EXCEPT !.st = "ok"]
          [] n = 0 /\ j # Len(s) + 1 -> Fail(m)
          [] n > 0 /\ c = "," ->
                [m EXCEPT !.stack[n].items = items, !.i = j + 1,
                          !.mode = IF top.k = "array" THEN "value" ELSE "key"]
          [] n > 0 /\ c = closer ->
                [After(m, IF top.k = "array" THEN Arr(items) ELSE Obj(items),
                       j + 1) EXCEPT !.stack = Pop(m.stack)]
          [] OTHER -> Fail(m)

Step(s, m) ==
    CASE m.st # "run" -> m
      [] m.mode = "value" -> StepValue(s, m)
      [] m.mode = "string" -> StepString(s, m)
      [] m.mode = "key" -> StepKey(s, m)
      [] m.mode = "colon" -> StepColon(s, m)
      [] m.mode = "after" -> StepAfter(s, m)

RECURSIVE Steps(_, _, _)
\* The machine after k steps.
Steps(s, m, k) ==
    IF k = 0 THEN m
    ELSE IF k = 1 THEN Step(s, m)
    ELSE LET half == Steps(s, m, k \div 2)
         IN  IF half.st # "run" THEN half
             ELSE Steps(s, half, k - (k \div 2))

\* JSON.parse(text): the value, or not ok where it throws a SyntaxError.
\* Every step but the last of a parse consumes a character or completes a
\* value, so 2 * Len(s) + 2 steps end it.
JSONParse(s) ==
    LET m == Steps(s, Start, 2 * Len(s) + 2)
    IN  IF m.st = "ok" THEN [ok |-> TRUE, v |-> m.v] ELSE Failed

RECURSIVE Quote(_)
\* The characters of a string with quote, backslash and newline escaped.
Quote(s) ==
    IF Len(s) = 0 THEN <<>>
    ELSE IF Len(s) = 1 THEN
        (IF s[1] \in {"\"", "\\"} THEN <<"\\", s[1]>>
         ELSE IF s[1] = "\n" THEN <<"\\", "n">>
         ELSE s)
    ELSE Quote(SubSeq(s, 1, Len(s) \div 2))
            \o Quote(SubSeq(s, Len(s) \div 2 + 1, Len(s)))

RECURSIVE JSONStringify(_)
\* JSON.stringify(value) for the values JSON text can hold.
JSONStringify(v) ==
    CASE v.t = "null" -> S_null
      [] v.t = "boolean" -> IF v.b THEN S_true ELSE S_false
      [] v.t = "number" -> NumberToString(v.n)
      [] v.t = "string" -> <<"\"">> \o Quote(v.s) \o <<"\"">>
      [] v.t = "array" ->
            <<"[">> \o Join([i \in 1..Len(v.a) |-> JSONStringify(v.a[i])],
                            <<",">>) \o <<"]">>
      [] v.t = "object" ->
            <<"{">> \o Join([i \in 1..Len(v.o) |->
                                <<"\"">> \o Quote(v.o[i][1]) \o <<"\"", ":">>
                                \o JSONStringify(v.o[i][2])],
                            <<",">>) \o <<"}">>

-----------------------------------------------------------------------------
(* Text of the program *)

\* Property names of a venue entry and of the relay's container.
K_name ==
    <<"n", "a", "m", "e">>

K_vibe_tags ==
    <<"v", "i", "b", "e", "_", "t", "a", "g", "s">>

K_address ==
    <<"a", "d", "d", "r", "e", "s", "s">>

K_rating ==
    <<"r", "a", "t", "i", "n", "g">>

K_opening_hours ==
    <<"o", "p", "e", "n", "i", "n", "g", "_", "h", "o", "u", "r", "s">>

K_bars ==
    <<"b", "a", "r", "s">>

K_length ==
    <<"l", "e", "n", "g", "t", "h">>


\* Sentinels; S_Star stands for the blank and the star after a relay rating.
S_NA ==
    <<"N", "/", "A">>

S_InfoUnavailable ==
    <<"I", "n", "f", "o", " ", "u", "n", "a", "v", "a", "i", "l", "a", "b",
      "l", "e">>

S_Star ==
    <<" ", "*">>

\* The backquote character, which a TLA+ string cannot hold.
Backquote == "backquote"

S_Fence ==
    <<Backquote, Backquote, Backquote, "j", "s", "o", "n">>


\* Relay front end: placeholder, user messages, the substrings handleError
\* looks for (N_) and the messages of the errors the handler throws (T_).
P_relay ==
    <<"N", "o", " ", "d", "a", "r", "k", " ", "d", "i", "v", "e", "s", " ",
      "f", "o", "u", "n", "d", " ", "i", "n", " ", "y", "o", "u", "r", " ",
      "v", "i", "c", "i", "n", "i", "t", "y", ".", " ", "T", "h", "e", " ",
      "v", "o", "i", "d", " ", "s", "t", "a", "r", "e", "s", " ", "b", "a",
      "c", "k", ".">>

M_relay_unknown ==
    <<"A", "n", " ", "u", "n", "k", "n", "o", "w", "n", " ", "e", "r", "r",
      "o", "r", " ", "o", "c", "c", "u", "r", "r", "e", "d", ".", " ", "P",
      "l", "e", "a", "s", "e", " ", "t", "r", "y", " ", "a", "g", "a", "i",
      "n", ".">>

M_relay_denied ==
    <<"L", "o", "c", "a", "t", "i", "o", "n", " ", "a", "c", "c", "e", "s",
      "s", " ", "i", "s", " ", "r", "e", "q", "u", "i", "r", "e", "d", " ",
      "t", "o", " ", "f", "i", "n", "d", " ", "n", "e", "a", "r", "b", "y",
      " ", "b", "a", "r", "s", ".", " ", "P", "l", "e", "a", "s", "e", " ",
      "e", "n", "a", "b", "l", "e", " ", "i", "t", " ", "a", "n", "d", " ",
      "t", "r", "y", " ", "a", "g", "a", "i", "n", ".">>

M_relay_timeout ==
    <<"C", "o", "u", "l", "d", " ", "n", "o", "t", " ", "g", "e", "t", " ",
      "y", "o", "u", "r", " ", "l", "o", "c", "a", "t", "i", "o", "n", " ",
      "i", "n", " ", "t", "i", "m", "e", ".", " ", "P", "l", "e", "a", "s",
      "e", " ", "c", "h", "e", "c", "k", " ", "y", "o", "u", "r", " ", "c",
      "o", "n", "n", "e", "c", "t", "i", "o", "n", " ", "a", "n", "d", " ",
      "t", "r", "y", " ", "a", "g", "a", "i", "n", ".">>

M_relay_unsupported ==
    <<"G", "e", "o", "l", "o", "c", "a", "t", "i", "o", "n", " ", "i", "s",
      " ", "n", "o", "t", " ", "s", "u", "p", "p", "o", "r", "t", "e", "d",
      " ", "b", "y", " ", "y", "o", "u", "r", " ", "b", "r", "o", "w", "s",
      "e", "r", ".">>

M_relay_fetch ==
    <<"C", "o", "u", "l", "d", " ", "n", "o", "t", " ", "f", "e", "t", "c",
      "h", " ", "r", "e", "c", "o", "m", "m", "e", "n", "d", "a", "t", "i",
      "o", "n", "s", ".", " ", "T", "h", "e", " ", "s", "e", "r", "v", "e",
      "r", " ", "m", "i", "g", "h", "t", " ", "b", "e", " ", "d", "o", "w",
      "n", ".", " ", "P", "l", "e", "a", "s", "e", " ", "t", "r", "y", " ",
      "a", "g", "a", "i", "n", " ", "l", "a", "t", "e", "r", ".">>

M_relay_invalid ==
    <<"R", "e", "c", "e", "i", "v", "e", "d", " ", "i", "n", "v", "a", "l",
      "i", "d", " ", "d", "a", "t", "a", " ", "f", "r", "o", "m", " ", "t",
      "h", "e", " ", "s", "e", "r", "v", "e", "r", ".", " ", "P", "l", "e",
      "a", "s", "e", " ", "t", "r", "y", " ", "a", "g", "a", "i", "n", " ",
      "l", "a", "t", "e", "r", ".">>

N_denied ==
    <<"U", "s", "e", "r", " ", "d", "e", "n", "i", "e", "d", " ", "G", "e",
      "o", "l", "o", "c", "a", "t", "i", "o", "n">>

N_timeout ==
    <<"t", "i", "m", "e", "o", "u", "t">>

N_unsupported ==
    <<"G", "e", "o", "l", "o", "c", "a", "t", "i", "o", "n", " ", "i", "s",
      " ", "n", "o", "t", " ", "s", "u", "p", "p", "o", "r", "t", "e", "d">>

N_Webhook ==
    <<"W", "e", "b", "h", "o", "o", "k">>

N_FailedToFetch ==
    <<"F", "a", "i", "l", "e", "d", " ", "t", "o", " ", "f", "e", "t", "c",
      "h">>

N_InvalidData ==
    <<"I", "n", "v", "a", "l", "i", "d", " ", "d", "a", "t", "a", " ", "f",
      "o", "r", "m", "a", "t">>

T_unsupported ==
    <<"G", "e", "o", "l", "o", "c", "a", "t", "i", "o", "n", " ", "i", "s",
      " ", "n", "o", "t", " ", "s", "u", "p", "p", "o", "r", "t", "e", "d",
      " ", "b", "y", " ", "y", "o", "u", "r", " ", "b", "r", "o", "w", "s",
      "e", "r", ".">>

T_relay_status ==
    <<"W", "e", "b", "h", "o", "o", "k", " ", "f", "a", "i", "l", "e", "d",
      " ", "w", "i", "t", "h", " ", "s", "t", "a", "t", "u", "s", ":", " ">>

T_relay_nonJson ==
    <<"I", "n", "v", "a", "l", "i", "d", " ", "d", "a", "t", "a", " ", "f",
      "o", "r", "m", "a", "t", ":", " ", "r", "e", "c", "e", "i", "v", "e",
      "d", " ", "a", " ", "n", "o", "n", "-", "J", "S", "O", "N", " ", "s",
      "t", "r", "i", "n", "g", ".">>

T_relay_noBars ==
    <<"I", "n", "v", "a", "l", "i", "d", " ", "d", "a", "t", "a", " ", "f",
      "o", "r", "m", "a", "t", " ", "r", "e", "c", "e", "i", "v", "e", "d",
      " ", "f", "r", "o", "m", " ", "w", "e", "b", "h", "o", "o", "k", ".">>


\* Direct and schema front ends.
P_nearby ==
    <<"N", "o", " ", "a", "l", "t", "e", "r", "n", "a", "t", "i", "v", "e",
      " ", "b", "a", "r", "s", " ", "f", "o", "u", "n", "d", " ", "n", "e",
      "a", "r", "b", "y", ".", " ", "T", "h", "e", " ", "d", "a", "r", "k",
      "n", "e", "s", "s", " ", "e", "l", "u", "d", "e", "s", " ", "y", "o",
      "u", ".", ".", ".", " ", "f", "o", "r", " ", "n", "o", "w", ".">>

M_unexpected ==
    <<"A", "n", " ", "u", "n", "e", "x", "p", "e", "c", "t", "e", "d", " ",
      "e", "r", "r", "o", "r", " ", "o", "c", "c", "u", "r", "r", "e", "d",
      ".", " ", "P", "l", "e", "a", "s", "e", " ", "t", "r", "y", " ", "a",
      "g", "a", "i", "n", ".">>

M_denied ==
    <<"L", "o", "c", "a", "t", "i", "o", "n", " ", "p", "e", "r", "m", "i",
      "s", "s", "i", "o", "n", " ", "d", "e", "n", "i", "e", "d", ".", " ",
      "P", "l", "e", "a", "s", "e", " ", "e", "n", "a", "b", "l", "e", " ",
      "i", "t", " ", "i", "n", " ", "y", "o", "u", "r", " ", "b", "r", "o",
      "w", "s", "e", "r", " ", "s", "e", "t", "t", "i", "n", "g", "s", " ",
      "t", "o", " ", "f", "i", "n", "d", " ", "n", "e", "a", "r", "b", "y",
      " ", "b", "a", "r", "s", ".">>

M_unavailable ==
    <<"L", "o", "c", "a", "t", "i", "o", "n", " ", "i", "n", "f", "o", "r",
      "m", "a", "t", "i", "o", "n", " ", "i", "s", " ", "u", "n", "a", "v",
      "a", "i", "l", "a", "b", "l", "e", ".">>

M_timeout ==
    <<"T", "h", "e", " ", "r", "e", "q", "u", "e", "s", "t", " ", "t", "o",
      " ", "g", "e", "t", " ", "u", "s", "e", "r", " ", "l", "o", "c", "a",
      "t", "i", "o", "n", " ", "t", "i", "m", "e", "d", " ", "o", "u", "t",
      ".">>

M_direct_syntax ==
    <<"F", "a", "i", "l", "e", "d", " ", "t", "o", " ", "r", "e", "a", "d",
      " ", "t", "h", "e", " ", "l", "i", "s", "t", " ", "o", "f", " ", "b",
      "a", "r", "s", ".", " ", "T", "h", "e", " ", "f", "o", "r", "m", "a",
      "t", " ", "f", "r", "o", "m", " ", "t", "h", "e", " ", "s", "e", "r",
      "v", "e", "r", " ", "w", "a", "s", " ", "u", "n", "e", "x", "p", "e",
      "c", "t", "e", "d", ".">>

M_direct_fetch ==
    <<"C", "o", "u", "l", "d", " ", "n", "o", "t", " ", "f", "e", "t", "c",
      "h", " ", "d", "a", "t", "a", " ", "f", "r", "o", "m", " ", "t", "h",
      "e", " ", "s", "e", "r", "v", "e", "r", ".", " ", "P", "l", "e", "a",
      "s", "e", " ", "t", "r", "y", " ", "a", "g", "a", "i", "n", " ", "l",
      "a", "t", "e", "r", ".">>

N_direct_status ==
    <<"W", "e", "b", "h", "o", "o", "k", " ", "r", "e", "q", "u", "e", "s",
      "t", " ", "f", "a", "i", "l", "e", "d">>

T_direct_status ==
    <<"W", "e", "b", "h", "o", "o", "k", " ", "r", "e", "q", "u", "e", "s",
      "t", " ", "f", "a", "i", "l", "e", "d", " ", "w", "i", "t", "h", " ",
      "s", "t", "a", "t", "u", "s", " ">>

M_schema_syntax ==
    <<"F", "a", "i", "l", "e", "d", " ", "t", "o", " ", "r", "e", "a", "d",
      " ", "t", "h", "e", " ", "l", "i", "s", "t", " ", "o", "f", " ", "b",
      "a", "r", "s", " ", "f", "r", "o", "m", " ", "t", "h", "e", " ", "A",
      "I", ".", " ", "T", "h", "e", " ", "f", "o", "r", "m", "a", "t", " ",
      "w", "a", "s", " ", "u", "n", "e", "x", "p", "e", "c", "t", "e", "d",
      ".", " ", "P", "l", "e", "a", "s", "e", " ", "t", "r", "y", " ", "a",
      "g", "a", "i", "n", ".">>


\* Messages the platform puts in its own errors (representative texts).
X_denied ==
    <<"U", "s", "e", "r", " ", "d", "e", "n", "i", "e", "d", " ", "G", "e",
      "o", "l", "o", "c", "a", "t", "i", "o", "n">>

X_expired ==
    <<"T", "i", "m", "e", "o", "u", "t", " ", "e", "x", "p", "i", "r", "e",
      "d">>

X_lowerTimeout ==
    <<"L", "o", "c", "a", "t", "i", "o", "n", " ", "r", "e", "q", "u", "e",
      "s", "t", " ", "t", "i", "m", "e", "o", "u", "t">>

X_syntax ==
    <<"U", "n", "e", "x", "p", "e", "c", "t", "e", "d", " ", "t", "o", "k",
      "e", "n", " ", "<", " ", "i", "n", " ", "J", "S", "O", "N", " ", "a",
      "t", " ", "p", "o", "s", "i", "t", "i", "o", "n", " ", "0">>

X_failedToFetch ==
    <<"F", "a", "i", "l", "e", "d", " ", "t", "o", " ", "f", "e", "t", "c",
      "h">>

X_readNull ==
    <<"C", "a", "n", "n", "o", "t", " ", "r", "e", "a", "d", " ", "p", "r",
      "o", "p", "e", "r", "t", "i", "e", "s", " ", "o", "f", " ", "n", "u",
      "l", "l">>

X_readUndefined ==
    <<"C", "a", "n", "n", "o", "t", " ", "r", "e", "a", "d", " ", "p", "r",
      "o", "p", "e", "r", "t", "i", "e", "s", " ", "o", "f", " ", "u", "n",
      "d", "e", "f", "i", "n", "e", "d">>

X_forEach ==
    <<"b", "a", "r", "s", ".", "f", "o", "r", "E", "a", "c", "h", " ", "i",
      "s", " ", "n", "o", "t", " ", "a", " ", "f", "u", "n", "c", "t", "i",
      "o", "n">>

X_map ==
    <<"b", "a", "r", ".", "v", "i", "b", "e", "_", "t", "a", "g", "s", ".",
      "m", "a", "p", " ", "i", "s", " ", "n", "o", "t", " ", "a", " ", "f",
      "u", "n", "c", "t", "i", "o", "n">>

X_toFixed ==
    <<"b", "a", "r", ".", "r", "a", "t", "i", "n", "g", ".", "t", "o", "F",
      "i", "x", "e", "d", " ", "i", "s", " ", "n", "o", "t", " ", "a", " ",
      "f", "u", "n", "c", "t", "i", "o", "n">>

X_gotStatus ==
    <<"g", "o", "t", " ", "s", "t", "a", "t", "u", "s", ":", " ">>


-----------------------------------------------------------------------------
(* Errors *)

\* GeolocationPositionError.PERMISSION_DENIED, POSITION_UNAVAILABLE, TIMEOUT
PERMISSION_DENIED == 1
POSITION_UNAVAILABLE == 2
TIMEOUT == 3

GeoError(code, message) ==
    [name |-> "GeolocationPositionError", code |-> code, message |-> message]
SyntaxError(message) == [name |-> "SyntaxError", code |-> 0, message |-> message]
TypeError(message) == [name |-> "TypeError", code |-> 0, message |-> message]
Error(message) == [name |-> "Error", code |-> 0, message |-> message]

Threw(e) == [threw |-> TRUE, error |-> e]
Returned(v) == [threw |-> FALSE, v |-> v]

\* Reading a property of a null or undefined value.
ReadOfNullish(v) ==
    TypeError(IF v.t = "null" THEN X_readNull ELSE X_readUndefined)

-----------------------------------------------------------------------------
(* Content of the results area *)

Cleared == [kind |-> "cleared"]
Placeholder(text) == [kind |-> "placeholder", text |-> text]
ErrorMessage(text) == [kind |-> "error", text |-> text]
BarList(items) == [kind |-> "list", items |-> items]

\* One list item: the text at each display position.
Item(name, tags, rating, hours, address) ==
    [name |-> name, tags |-> tags, rating |-> rating, hours |-> hours,
     address |-> address]

\* The first exception the items raise, if any, else the list of them.
Collect(rendered) ==
    IF \E i \in 1..Len(rendered) : rendered[i].threw
    THEN rendered[CHOOSE i \in 1..Len(rendered) :
                     /\ rendered[i].threw
                     /\ \A j \in 1..(i - 1) : ~rendered[j].threw]
    ELSE Returned(BarList([i \in 1..Len(rendered) |-> rendered[i].v]))

-----------------------------------------------------------------------------
(* Relay front end: displayResults and handleError *)

\* The body of bars.forEach in displayResults.
displayItem(bar) ==
    IF Nullish(bar) THEN Threw(ReadOfNullish(bar))
    ELSE
        LET rating == Prop(bar, K_rating)
            ratingText == IF rating # Null
                          THEN ToString(rating) \o S_Star
                          ELSE S_NA
            tags == Prop(bar, K_vibe_tags)
        IN  IF Nullish(tags) THEN Threw(ReadOfNullish(tags))
            ELSE IF ~IsArray(tags) THEN Threw(TypeError(X_map))
            ELSE Returned(Item(ToString(Prop(bar, K_name)),
                               [i \in 1..Len(tags.a) |-> ToString(tags.a[i])],
                               ratingText,
                               ToString(Prop(bar, K_opening_hours)),
                               ToString(Prop(bar, K_address))))

\* bars.length for a value that is neither null nor undefined.
LengthOf(bars) ==
    CASE bars.t = "array" -> Num(10 * Len(bars.a))
      [] bars.t = "string" -> Num(10 * Len(bars.s))
      [] OTHER -> Prop(bars, K_length)

\* displayResults(bars): what it leaves in the results area, or the
\* exception it raises.
displayResults(bars) ==
    IF Nullish(bars) THEN Threw(ReadOfNullish(bars))
    ELSE IF LengthOf(bars) = Num(0) THEN Returned(Placeholder(P_relay))
    ELSE IF ~IsArray(bars) THEN Threw(TypeError(X_forEach))
    ELSE Collect([i \in 1..Len(bars.a) |-> displayItem(bars.a[i])])

\* handleError: the message chosen from the text of error.message.
handleError(error) ==
    LET m == error.message
    IN  IF Includes(m, N_denied) THEN M_relay_denied
        ELSE IF Includes(m, N_timeout) THEN M_relay_timeout
        ELSE IF Includes(m, N_unsupported) THEN M_relay_unsupported
        ELSE IF Includes(m, N_Webhook) \/ Includes(m, N_FailedToFetch)
        THEN M_relay_fetch
        ELSE IF Includes(m, N_InvalidData) THEN M_relay_invalid
        ELSE M_relay_unknown

\* The second decode left out.
SecondDecode_never(data) == [ok |-> TRUE, v |-> data, parses |-> 0]

\* if (typeof data === 'string') data = JSON.parse(data), the catch around
\* it included: the value to go on with and the JSON.parse calls made.
SecondDecode(data) ==
    IF IsString(data)
    THEN LET again == JSONParse(data.s)
         IN  IF again.ok THEN [ok |-> TRUE, v |-> again.v, parses |-> 1]
             ELSE [ok |-> FALSE, v |-> data, parses |-> 1]
    ELSE [ok |-> TRUE, v |-> data, parses |-> 0]

\* The test before displayResults: data && Array.isArray(data.bars).
HasBarsArray(data) ==
    /\ Truthy(data)
    /\ IsArray(Prop(data, K_bars))

-----------------------------------------------------------------------------
(* Direct front end: safeDisplay, renderResults and the catch block *)

safeDisplay_direct(value) ==
    IF value = Null \/ value = Undefined \/ value = Str(<<>>) THEN S_NA
    ELSE IF TypeofObject(value) /\ ~IsArray(value) THEN S_InfoUnavailable
    ELSE ToString(value)

\* The body of bars.forEach in renderResults.
renderItem_direct(bar) ==
    IF Nullish(bar) THEN Threw(ReadOfNullish(bar))
    ELSE
        LET rating == Prop(bar, K_rating)
            tags == Prop(bar, K_vibe_tags)
        IN  Returned(Item(
                safeDisplay_direct(Prop(bar, K_name)),
                IF IsArray(tags)
                THEN [i \in 1..Len(tags.a) |-> safeDisplay_direct(tags.a[i])]
                ELSE <<>>,
                IF Truthy(rating) THEN NumberToFixed1(ToNumber(rating))
                ELSE S_NA,
                safeDisplay_direct(Prop(bar, K_opening_hours)),
                safeDisplay_direct(Prop(bar, K_address))))

\* !bars || bars.length === 0
NothingToRender(bars) == ~Truthy(bars) \/ LengthOf(bars) = Num(0)

renderResults_direct(bars) ==
    IF NothingToRender(bars) THEN Returned(Placeholder(P_nearby))
    ELSE IF ~IsArray(bars) THEN Threw(TypeError(X_forEach))
    ELSE Collect([i \in 1..Len(bars.a) |-> renderItem_direct(bars.a[i])])

\* The catch block: the message handed to renderError.
catch_direct(error) ==
    IF error.name = "GeolocationPositionError" THEN
        CASE error.code = PERMISSION_DENIED -> M_denied
          [] error.code = POSITION_UNAVAILABLE -> M_unavailable
          [] error.code = TIMEOUT -> M_timeout
          [] OTHER -> M_unexpected
    ELSE IF error.name = "SyntaxError" THEN M_direct_syntax
    ELSE IF Includes(error.message, N_direct_status) THEN M_direct_fetch
    ELSE error.message

-----------------------------------------------------------------------------
(* Schema front end: fence stripping, safeDisplay, renderResults, catch *)

\* responseText.trim(), then without the fence when it starts with one.
StripFence(responseText) ==
    LET jsonString == Trim(responseText)
    IN  IF StartsWith(jsonString, S_Fence)
        THEN Trim(Substring(jsonString, 7, Len(jsonString) - 3))
        ELSE jsonString

safeDisplay_schema(value) ==
    IF value = Null \/ value = Undefined \/ value = Str(<<>>) THEN S_NA
    ELSE IF TypeofObject(value) THEN S_InfoUnavailable
    ELSE ToString(value)

\* The body of bars.forEach in renderResults.
renderItem_schema(bar) ==
    IF Nullish(bar) THEN Threw(ReadOfNullish(bar))
    ELSE
        LET rating == Prop(bar, K_rating)
            tags == Prop(bar, K_vibe_tags)
        IN  IF Truthy(rating) /\ rating.t # "number"
            THEN Threw(TypeError(X_toFixed))
            ELSE Returned(Item(
                    ToString(Prop(bar, K_name)),
                    IF Truthy(tags) /\ IsArray(tags)
                    THEN [i \in 1..Len(tags.a) |-> ToString(tags.a[i])]
                    ELSE <<>>,
                    IF Truthy(rating) THEN ToFixed1(rating.n) ELSE S_NA,
                    safeDisplay_schema(Prop(bar, K_opening_hours)),
                    safeDisplay_schema(Prop(bar, K_address))))

renderResults_schema(bars) ==
    IF NothingToRender(bars) THEN Returned(Placeholder(P_nearby))
    ELSE IF ~IsArray(bars) THEN Threw(TypeError(X_forEach))
    ELSE Collect([i \in 1..Len(bars.a) |-> renderItem_schema(bars.a[i])])

\* The catch block: the message handed to renderError.
catch_schema(error) ==
    IF error.name = "GeolocationPositionError" THEN
        CASE error.code = PERMISSION_DENIED -> M_denied
          [] error.code = POSITION_UNAVAILABLE -> M_unavailable
          [] error.code = TIMEOUT -> M_timeout
          [] OTHER -> M_unexpected
    ELSE IF error.name = "SyntaxError" THEN M_schema_syntax
    ELSE error.message

-----------------------------------------------------------------------------
(* What the backends may answer *)

D_TheCrow ==
    <<"T", "h", "e", " ", "C", "r", "o", "w">>

D_Goth ==
    <<"G", "o", "t", "h">>

D_Dive ==
    <<"D", "i", "v", "e">>

D_RavenSt ==
    <<"1", "3", " ", "R", "a", "v", "e", "n", " ", "S", "t">>

D_Hours ==
    <<"8", "P", "M", "-", "2", "A", "M">>

D_Pit ==
    <<"P", "i", "t">>

D_notJson ==
    <<"n", "o", "t", " ", "j", "s", "o", "n">>

D_45 ==
    <<"4", ".", "5">>

D_html ==
    <<"<", "h", "t", "m", "l", ">">>

Bar(name, tags, address, rating, hours) ==
    Obj(<<<<K_name, name>>, <<K_vibe_tags, tags>>, <<K_address, address>>,
          <<K_rating, rating>>, <<K_opening_hours, hours>>>>)

GothDive == Arr(<<Str(D_Goth), Str(D_Dive)>>)

\* A well-formed entry.
TheCrow ==
    Bar(Str(D_TheCrow), GothDive, Str(D_RavenSt), Num(45), Str(D_Hours))

\* A well-formed entry rated 0.
ThePit == Bar(Str(D_Pit), GothDive, Str(D_RavenSt), Num(0), Str(D_Hours))

\* Entries of an array answer: well-formed ones, entries that are no
\* objects, entries with missing fields and with fields of other types.
Entries ==
    << TheCrow,
       ThePit,
       Null,
       Num(70),
       Obj(<<>>),
       Bar(Str(D_Pit), GothDive, Str(D_RavenSt), Null, Str(D_Hours)),
       Bar(Str(D_Pit), GothDive, Str(D_RavenSt), Str(D_45), Str(D_Hours)),
       Bar(Str(D_Pit), Str(D_Goth), Str(D_RavenSt), Num(30), Str(D_Hours)),
       Bar(Str(D_Pit), Arr(<<Obj(<<>>), GothDive>>), Str(D_RavenSt), Num(30),
           Str(D_Hours)),
       Bar(Obj(<<>>), GothDive, Str(D_RavenSt), Num(30), Str(D_Hours)),
       Bar(GothDive, GothDive, Str(D_RavenSt), Num(30), Str(D_Hours)),
       Bar(Str(D_Pit), GothDive, Obj(<<>>), Num(30), Obj(<<>>)),
       Bar(Str(D_Pit), GothDive, GothDive, Num(30), GothDive),
       Bar(Str(<<>>), Arr(<<>>), Str(<<>>), Num(50), Str(<<>>)) >>

\* Arrays of entries: empty, each entry alone, and two entries.
Arrays ==
    <<Arr(<<>>)>>
        \o [i \in 1..Len(Entries) |-> Arr(<<Entries[i]>>)]
        \o <<Arr(<<TheCrow, ThePit>>), Arr(<<ThePit, TheCrow>>),
             Arr(<<TheCrow, Null>>)>>

Bars(a) == Obj(<<<<K_bars, a>>>>)

\* Values that are no array; the relay's container is one of them.
NonArrays ==
    <<Null, Bool(TRUE), Bool(FALSE), Num(0), Num(50), Str(<<>>),
      Str(D_notJson), Obj(<<>>), Obj(<<<<K_length, Num(0)>>>>),
      Bars(Null), Bars(Str(D_Goth)), Bars(Obj(<<>>))>>
        \o [i \in 1..Len(Arrays) |-> Bars(Arrays[i])]

Payloads == Arrays \o NonArrays

\* The JSON text of the string that holds v as JSON text.
Encoded(v) == JSONStringify(Str(JSONStringify(v)))

\* Response bodies: each payload as JSON text; some as the JSON text of a
\* string that holds them as JSON text, one of them encoded once more; and
\* text that is no JSON.
Bodies ==
    [i \in 1..Len(Payloads) |-> JSONStringify(Payloads[i])]
        \o <<Encoded(Bars(Arr(<<>>))), Encoded(Bars(Arr(<<TheCrow>>))),
             Encoded(Bars(Arr(<<ThePit, TheCrow>>))),
             Encoded(Bars(Arr(<<Null>>))), Encoded(Bars(Null)),
             Encoded(Obj(<<>>)), Encoded(Arr(<<TheCrow>>)), Encoded(Null),
             Encoded(Num(50)),
             Encoded(Str(JSONStringify(Bars(Arr(<<TheCrow>>))))),
             <<>>, D_html, <<"[", "1", ",">>>>

S_FenceEnd == <<Backquote, Backquote, Backquote>>

Fenced(json) == S_Fence \o <<"\n">> \o json \o <<"\n">> \o S_FenceEnd

\* Answer texts of the generative backend: each payload as JSON text; some
\* between a leading and a trailing fence, padded with white space, or
\* after a leading fence with no trailing one; and text that is no JSON.
Texts ==
    [i \in 1..Len(Payloads) |-> JSONStringify(Payloads[i])]
        \o <<Fenced(JSONStringify(Arr(<<>>))),
             Fenced(JSONStringify(Arr(<<TheCrow>>))),
             Fenced(JSONStringify(Arr(<<ThePit, TheCrow>>))),
             Fenced(JSONStringify(Null)),
             <<" ", "\n">> \o JSONStringify(Arr(<<TheCrow>>)) \o <<"\n">>,
             <<" ">> \o Fenced(JSONStringify(Arr(<<TheCrow>>))) \o <<"\n">>,
             S_Fence \o <<"\n">> \o JSONStringify(Arr(<<>>)),
             S_Fence \o <<"\n">> \o JSONStringify(Arr(<<TheCrow>>)),
             S_Fence \o JSONStringify(Arr(<<TheCrow>>)) \o S_FenceEnd,
             <<>>, D_html, <<"[", "1", ",">>>>

\* Transport statuses; response.ok is a status from 200 to 299.
Statuses == {200, 404, 500}
Ok(status) == status >= 200 /\ status <= 299

\* Reason codes and message texts of a geolocation failure.
GeoCodes == {PERMISSION_DENIED, POSITION_UNAVAILABLE, TIMEOUT}
GeoMessages == {X_denied, X_expired, X_lowerTimeout, <<>>}


-----------------------------------------------------------------------------
(* The click handlers *)

Variants == {"relay", "direct", "schema"}
Runs == 1..MaxRuns

NoError == [name |-> "none", code |-> 0, message |-> <<>>]
NotShown == [called |-> FALSE, arg |-> Undefined]
Shown(arg) == [called |-> TRUE, arg |-> arg]

\* How the try block ended: the exception it raised or NoError, what it
\* left in the results area, whether the body was decoded, how many further
\* JSON.parse calls were made, and what the renderer was called with.
Ended(error, rendered, decoded, parses, shown) ==
    [error |-> error, rendered |-> rendered, decoded |-> decoded,
     parses |-> parses, shown |-> shown]

ThrewBefore(error) == Ended(error, Cleared, FALSE, 0, NotShown)

\* A renderer called with arg, after the decoding counted by parses.
Rendering(r, parses, arg) ==
    IF r.threw THEN Ended(r.error, Cleared, TRUE, parses, Shown(arg))
    ELSE Ended(NoError, r.v, TRUE, parses, Shown(arg))

\* Relay handler from let data = await response.json() to displayResults.
process_relay(body) ==
    LET first == JSONParse(body)
    IN  IF ~first.ok
        THEN Ended(SyntaxError(X_syntax), Cleared, TRUE, 0, NotShown)
        ELSE
            LET second == SecondDecode(first.v)
            IN  IF ~second.ok
                THEN Ended(Error(T_relay_nonJson), Cleared, TRUE,
                           second.parses, NotShown)
                ELSE IF ~HasBarsArray(second.v)
                THEN Ended(Error(T_relay_noBars), Cleared, TRUE,
                           second.parses, NotShown)
                ELSE LET bars == Prop(second.v, K_bars)
                     IN  Rendering(displayResults(bars), second.parses, bars)

\* Direct handler from await response.json() to renderResults.
process_direct(body) ==
    LET first == JSONParse(body)
    IN  IF ~first.ok
        THEN Ended(SyntaxError(X_syntax), Cleared, TRUE, 0, NotShown)
        ELSE Rendering(renderResults_direct(first.v), 0, first.v)

\* Schema handler from responseText = response.text to renderResults.
process_schema(text) ==
    LET first == JSONParse(StripFence(text))
    IN  IF ~first.ok
        THEN Ended(SyntaxError(X_syntax), Cleared, TRUE, 0, NotShown)
        ELSE Rendering(renderResults_schema(first.v), 0, first.v)

\* The message the catch block shows for an error.
Classify(v, error) ==
    CASE v = "relay" -> handleError(error)
      [] v = "direct" -> catch_direct(error)
      [] v = "schema" -> catch_schema(error)

\* Results area after catch and finally.
FinalResults(v, e) ==
    IF e.error = NoError THEN e.rendered
    ELSE ErrorMessage(Classify(v, e.error))

\* The answers as the handlers take them, computed once per answer.
RelayEnd == [k \in 1..Len(Bodies) |-> process_relay(Bodies[k])]
DirectEnd == [k \in 1..Len(Bodies) |-> process_direct(Bodies[k])]
SchemaEnd == [k \in 1..Len(Texts) |-> process_schema(Texts[k])]

\* What console.error received in the catch block.
Logged(e) == e.error

Initial == [kind |-> "initial"]

\* No handler invocation has completed yet.
NoRun ==
    [done |-> FALSE, at |-> "none", geo |-> NoError, status |-> 0,
     answer |-> 0, end |-> ThrewBefore(NoError), logged |-> NoError,
     requests |-> 0, results |-> Initial]

\* Handler invocation r runs from its last suspension point to its end:
\* the catch block logs and shows the error, finally hides the loader.
Complete(r, at, geo, status, answer, e) ==
    /\ runs' = [runs EXCEPT ![r] = "idle"]
    /\ results' = FinalResults(variant, e)
    /\ loader' = "none"
    /\ requests' = [requests EXCEPT ![r] = 0]
    /\ last' = [done |-> TRUE, at |-> at, geo |-> geo, status |-> status,
                answer |-> answer, end |-> e, logged |-> Logged(e),
                requests |-> requests[r],
                results |-> FinalResults(variant, e)]
    /\ UNCHANGED <<variant, geoSupported>>

\* The handler issues n requests and then one more.
Dispatch_twice(n) == n + 2

\* await fetch(webhookUrl, ...) or await ai.models.generateContent(...):
\* the handler, having issued n requests, issues one.
Dispatch(n) == n + 1

Init ==
    /\ variant \in Variants
    /\ geoSupported \in BOOLEAN
    /\ runs = [r \in Runs |-> "idle"]
    /\ loader = "none"
    /\ results = Initial
    /\ requests = [r \in Runs |-> 0]
    /\ last = NoRun

\* A click where navigator.geolocation exists: the loader is shown, the
\* results area cleared, the position requested.
Click(r) ==
    /\ runs[r] = "idle"
    /\ geoSupported
    /\ runs' = [runs EXCEPT ![r] = "geo"]
    /\ loader' = "block"
    /\ results' = Cleared
    /\ requests' = [requests EXCEPT ![r] = 0]
    /\ UNCHANGED <<variant, geoSupported, last>>

\* A click where navigator.geolocation is missing: the promise is rejected
\* in the executor and the handler runs on to its end before any other
\* event is handled.
ClickUnsupported(r) ==
    /\ runs[r] = "idle"
    /\ ~geoSupported
    /\ Complete(r, "unsupported", NoError, 0, 0,
                ThrewBefore(Error(T_unsupported)))

\* getCurrentPosition calls back with a position: the backend is called.
GeoResolved(r) ==
    /\ runs[r] = "geo"
    /\ runs' = [runs EXCEPT ![r] =
                    IF variant = "schema" THEN "generate" ELSE "fetch"]
    /\ requests' = [requests EXCEPT ![r] = Dispatch(@)]
    /\ UNCHANGED <<variant, geoSupported, loader, results, last>>

\* getCurrentPosition calls back with a GeolocationPositionError.
GeoRejected(r, code, message) ==
    /\ runs[r] = "geo"
    /\ Complete(r, "geo", GeoError(code, message), 0, 0,
                ThrewBefore(GeoError(code, message)))

\* fetch rejects: the request never got an answer.
FetchRejected(r) ==
    /\ runs[r] = "fetch"
    /\ Complete(r, "fetch", NoError, 0, 0,
                ThrewBefore(TypeError(X_failedToFetch)))

\* fetch resolves with a response of this status.
FetchResponded(r, status) ==
    /\ runs[r] = "fetch"
    /\ IF Ok(status)
       THEN /\ runs' = [runs EXCEPT ![r] = "json"]
            /\ UNCHANGED <<variant, geoSupported, loader, results,
                           requests, last>>
       ELSE Complete(r, "fetch", NoError, status, 0,
                     ThrewBefore(Error(
                        IF variant = "relay"
                        THEN T_relay_status \o IntToString(status)
                        ELSE T_direct_status \o IntToString(status)
                                \o <<".">>)))

\* response.json() settles on the body Bodies[k].
BodyRead(r, k) ==
    /\ runs[r] = "json"
    /\ Complete(r, "body", NoError, 200, k,
                IF variant = "relay" THEN RelayEnd[k] ELSE DirectEnd[k])

\* generateContent rejects: the backend answered with this status.
GenerateRejected(r, status) ==
    /\ runs[r] = "generate"
    /\ ~Ok(status)
    /\ Complete(r, "fetch", NoError, status, 0,
                ThrewBefore(Error(X_gotStatus \o IntToString(status))))

\* generateContent resolves with the answer text Texts[k].
GenerateResolved(r, k) ==
    /\ runs[r] = "generate"
    /\ Complete(r, "body", NoError, 200, k, SchemaEnd[k])

Next ==
    \E r \in Runs :
        \/ Click(r)
        \/ ClickUnsupported(r)
        \/ GeoResolved(r)
        \/ \E code \in GeoCodes, message \in GeoMessages :
                GeoRejected(r, code, message)
        \/ FetchRejected(r)
        \/ \E status \in Statuses : FetchResponded(r, status)
        \/ \E k \in 1..Len(Bodies) : BodyRead(r, k)
        \/ \E status \in Statuses : GenerateRejected(r, status)
        \/ \E k \in 1..Len(Texts) : GenerateResolved(r, k)

Spec == Init /\ [][Next]_vars

-----------------------------------------------------------------------------
(* Vocabulary of the properties *)

\* The completed handler invocation got an answer from the backend.
Answered == last.done /\ last.at = "body"

\* JSON.parse of each answer as the front end hands it over.
BodyValue == [k \in 1..Len(Bodies) |-> JSONParse(Bodies[k])]
TextValue == [k \in 1..Len(Texts) |-> JSONParse(StripFence(Texts[k]))]

\* The first decode of the answer.
FirstParse ==
    IF variant = "schema" THEN TextValue[last.answer]
    ELSE BodyValue[last.answer]

\* A relay body after one more decode where the first gave a string.
RelayPayload ==
    [k \in 1..Len(Bodies) |->
        IF BodyValue[k].ok /\ IsString(BodyValue[k].v)
        THEN JSONParse(BodyValue[k].v.s)
        ELSE BodyValue[k]]

\* The decoded payload of the answer.
Payload == IF variant = "relay" THEN RelayPayload[last.answer] ELSE FirstParse

\* What is under the key bars.
BarsOf(v) == IF Nullish(v) THEN Undefined ELSE Prop(v, K_bars)

\* Where the variant expects the venue array: the relay under bars, the
\* others at the top level.
Venues == IF variant = "relay" THEN BarsOf(Payload.v) ELSE Payload.v

\* The answer decodes and holds a venue array.
WellFormed == Answered /\ Payload.ok /\ IsArray(Venues)

\* The answer decodes and holds no venue array.
Malformed ==
    /\ Answered
    /\ FirstParse.ok
    /\ ~(Payload.ok /\ IsArray(Venues))

\* The error category a message in the results area stands for.
CategoryOf(text) ==
    CASE text \in {M_relay_denied, M_denied} -> "PermissionDenied"
      [] text = M_unavailable -> "PositionUnavailable"
      [] text \in {M_relay_timeout, M_timeout} -> "LocationTimeout"
      [] text = M_relay_unsupported -> "GeolocationUnsupported"
      [] text \in {M_relay_fetch, M_direct_fetch} -> "NetworkOrBackendFailure"
      [] text \in {M_relay_invalid, M_direct_syntax, M_schema_syntax} ->
            "MalformedResponse"
      [] OTHER -> "Unknown"

\* The category the completed invocation ended in, "none" without error.
Outcome ==
    IF last.results.kind = "error" THEN CategoryOf(last.results.text)
    ELSE "none"

NoResultsMessage == IF variant = "relay" THEN P_relay ELSE P_nearby

Sentinels == {S_NA, S_InfoUnavailable}

IsObjectOrArray(v) == v.t \in {"object", "array"}

InFlight == {r \in Runs : runs[r] # "idle"}

-----------------------------------------------------------------------------
(* Properties *)

\* C1: wherever a venue list is rendered, an entry whose rating is the
\* number 0 shows the rating 0.0, not the not-available sentinel.
C1_ZeroRatingShown ==
    (last.done /\ last.results.kind = "list") =>
        \A i \in 1..Len(last.results.items) :
            LET entry == last.end.shown.arg.a[i]
            IN  (~Nullish(entry) /\ Prop(entry, K_rating) = Num(0)) =>
                    last.results.items[i].rating = <<"0", ".", "0">>

\* C2: an answer that decodes to something without a venue array ends in
\* the MalformedResponse outcome: no list, no no-results message, no other
\* category.
C2_NonArrayIsMalformed == Malformed => Outcome = "MalformedResponse"

\* C3: an empty venue array ends with the no-results message and no error,
\* and no malformed answer ends that way.
C3_EmptyArrayDistinct ==
    /\ (WellFormed /\ Len(Venues.a) = 0) =>
            last.results = Placeholder(NoResultsMessage)
    /\ Malformed => last.results # Placeholder(NoResultsMessage)

\* C4: in the relay variant a body that decodes to a string is decoded
\* exactly once more, any other body not again; when that decode fails or
\* the value has no array under bars the run ends in MalformedResponse
\* without displayResults being called; otherwise displayResults is called
\* with that array.
C4_RelayDecodesOnce ==
    (variant = "relay" /\ Answered /\ FirstParse.ok) =>
        /\ last.end.parses = (IF IsString(FirstParse.v) THEN 1 ELSE 0)
        /\ IF Payload.ok /\ IsArray(BarsOf(Payload.v))
           THEN last.end.shown = Shown(BarsOf(Payload.v))
           ELSE /\ last.results = ErrorMessage(M_relay_invalid)
                /\ ~last.end.shown.called

\* A relay body that decoded to a string whose second decode gave a bars
\* array, which was displayed.
C4_Witness ==
    /\ variant = "relay"
    /\ Answered
    /\ FirstParse.ok
    /\ IsString(FirstParse.v)
    /\ last.end.parses = 1
    /\ last.end.shown.called
    /\ last.results.kind = "list"

\* C5: a non-success status ends in NetworkOrBackendFailure with the status
\* code in the logged error, the body not decoded and no list rendered.
C5_StatusIsBackendFailure ==
    (last.done /\ last.status # 0 /\ ~Ok(last.status)) =>
        /\ Outcome = "NetworkOrBackendFailure"
        /\ Includes(last.logged.message, IntToString(last.status))
        /\ ~last.end.decoded
        /\ last.results.kind # "list"

\* C6: an exception of the first decode or of a later decode pass ends in
\* MalformedResponse.
C6_DecodeErrorIsMalformed ==
    (Answered /\ ~(FirstParse.ok /\ Payload.ok)) =>
        Outcome = "MalformedResponse"

\* C7: a geolocation failure ends in the category of its reason code,
\* whatever its message.
C7_GeoFailureByCode ==
    (last.done /\ last.at = "geo") =>
        Outcome = CASE last.geo.code = PERMISSION_DENIED -> "PermissionDenied"
                    [] last.geo.code = POSITION_UNAVAILABLE ->
                            "PositionUnavailable"
                    [] last.geo.code = TIMEOUT -> "LocationTimeout"

\* C8: at most one run is in flight at a time.
C8_OneRunInFlight == Cardinality(InFlight) <= 1

\* C9: a venue array with entries is rendered as a list with one record
\* per entry in the backend's order, whatever the entries are.
C9_EveryEntryRendered ==
    (WellFormed /\ Len(Venues.a) > 0) =>
        /\ last.results.kind = "list"
        /\ Len(last.results.items) = Len(Venues.a)
        /\ \A i \in 1..Len(Venues.a) :
                LET name == Prop(Venues.a[i], K_name)
                IN  (IsString(name) /\ Len(name.s) > 0) =>
                        last.results.items[i].name = name.s

\* C10: in a rendered list, a name, tag, address or opening hours that is
\* an object or an array shows as a sentinel.
C10_NoObjectDisplayed ==
    (last.done /\ last.results.kind = "list") =>
        \A i \in 1..Len(last.results.items) :
            LET entry == last.end.shown.arg.a[i]
                item == last.results.items[i]
                tags == Prop(entry, K_vibe_tags)
            IN  /\ IsObjectOrArray(Prop(entry, K_name)) =>
                        item.name \in Sentinels
                /\ IsObjectOrArray(Prop(entry, K_address)) =>
                        item.address \in Sentinels
                /\ IsObjectOrArray(Prop(entry, K_opening_hours)) =>
                        item.hours \in Sentinels
                /\ IsArray(tags) =>
                        \A j \in 1..Len(tags.a) :
                            IsObjectOrArray(tags.a[j]) =>
                                item.tags[j] \in Sentinels

\* The messages a variant's error handling holds as literals.
FixedMessages(v) ==
    IF v = "relay"
    THEN {M_relay_unknown, M_relay_denied, M_relay_timeout,
          M_relay_unsupported, M_relay_fetch, M_relay_invalid}
    ELSE {M_unexpected, M_denied, M_unavailable, M_timeout,
          IF v = "direct" THEN M_direct_syntax ELSE M_schema_syntax}
         \cup (IF v = "direct" THEN {M_direct_fetch} ELSE {})

\* The completed handler invocation ended in its catch block.
Failed_run == last.done /\ last.end.error # NoError

\* C11: a failed run leaves one of the variant's fixed messages in the
\* results area; the message of the error itself goes to the log only.
C11_FixedMessageShown ==
    Failed_run =>
        /\ last.results.kind = "error"
        /\ last.results.text \in FixedMessages(variant)
        /\ last.logged = last.end.error

\* C12: the backend request is issued only once the position has been
\* obtained, at most once per run and not at all when acquisition fails;
\* decoding and rendering happen only after the answer has arrived.
C12_StepsInOrder ==
    /\ \A r \in Runs :
            /\ requests[r] <= 1
            /\ runs[r] \in {"idle", "geo"} => requests[r] = 0
            /\ runs[r] \in {"fetch", "json", "generate"} => requests[r] = 1
    /\ last.done =>
            /\ last.requests <= 1
            /\ last.at \in {"geo", "unsupported"} => last.requests = 0
            /\ (last.end.decoded \/ last.end.shown.called) =>
                    (last.at = "body" /\ last.requests = 1)

\* A run that obtained a position, issued its request and rendered the
\* answer, while another run is still waiting for its position.
C12_Witness ==
    /\ last.done
    /\ last.at = "body"
    /\ last.requests = 1
    /\ last.end.shown.called
    /\ \E r \in Runs : runs[r] = "geo" /\ requests[r] = 0

\* The trimmed text t closes with a fence after its leading one.
EndsWithFence(t) ==
    /\ Len(t) >= Len(S_Fence) + Len(S_FenceEnd)
    /\ SubSeq(t, Len(t) - Len(S_FenceEnd) + 1, Len(t)) = S_FenceEnd

\* What stands after the leading fence of the trimmed text t and before
\* its trailing fence, where it has one, without the white space around.
FenceBody(t) ==
    Trim(SubSeq(t, Len(S_Fence) + 1,
                IF EndsWithFence(t) THEN Len(t) - Len(S_FenceEnd)
                ELSE Len(t)))

\* C13: in the schema variant the text handed to JSON.parse is the trimmed
\* answer itself where that does not start with a fence, and otherwise
\* exactly what stands between the fences, no character of the body lost,
\* also where the trailing fence is missing.
C13_FenceStripping ==
    (variant = "schema" /\ Answered) =>
        LET t == Trim(Texts[last.answer])
            stripped == StripFence(Texts[last.answer])
        IN  IF StartsWith(t, S_Fence) THEN stripped = FenceBody(t)
            ELSE stripped = t

\* C14: the loader is displayed exactly while at least one run is in
\* flight, also when runs overlap.
C14_LoaderWhileInFlight == (loader = "block") <=> (InFlight # {})
====
